---- MODULE Spec2Model ----
(***************************************************************************)
(* HealthSys (src/app.py): the database initialisation gate                *)
(* (initialize_database / seed_initial_data, run from the before_request   *)
(* hook), the session-based access checks and the routes of the data API,  *)
(* as a state machine over the persisted store, the process globals and    *)
(* the worker threads of one server process.                               *)
(***************************************************************************)
EXTENDS Integers, FiniteSets, Sequences, TLC

\* Worker threads of the server process that handle requests in parallel.
NumThreads == 2

\* Consultations the store holds at most (the seed has three).
MaxConsultations == 4

Threads == 1..NumThreads

NoThread == 0

NoSession == [user_id |-> 0, user_name |-> "", user_role |-> ""]

NoReq == [route |-> "", id |-> 0, required_role |-> ""]

NoResp == [status |-> 0, body |-> {}]

NoSeed == [u |-> 0, p |-> 0, m |-> 0, c |-> 0]

\* str(hash(...)) is salted per interpreter process (hash randomisation).
HashSeeds == {"h1", "h2"}

Roles == {"Admin", "Doctor", "Nurse", "Pharmacist"}

VARIABLES
    users,            \* table user
    patients,         \* table patient
    medicines,        \* table medicine
    consultations,    \* table consultation
    prescriptions,    \* table prescription
    schema,           \* the tables exist in the database file
    _is_initialized,  \* module global, src/app.py:99
    _init_lock,       \* module global lock, src/app.py:98: the holding thread
    hashSeed,         \* the hash salt of the running interpreter
    session,          \* the browser's session cookie
    pc,               \* each thread's position
    seedIds,          \* seed_initial_data's locals: first id of u*, p*, m*, c*
    req,              \* each thread's request: the route and its view argument
    resp,             \* each thread's response: status (0: none yet) and
                      \* the rows of its JSON body
    initRuns,         \* history: how often this process entered the
                      \* create_all-and-seed sequence (2: twice or more)
    seedFailed,       \* history: seeding raised during the thread's current call
    faulted           \* history: some store operation has raised

storeVars == <<users, patients, medicines, consultations, prescriptions>>

procVars == <<_is_initialized, _init_lock, hashSeed>>

threadVars == <<pc, seedIds, req, resp>>

histVars == <<initRuns, seedFailed, faulted>>

vars == <<users, patients, medicines, consultations, prescriptions, schema,
          _is_initialized, _init_lock, hashSeed, session, pc, seedIds, req,
          resp, initRuns, seedFailed, faulted>>

----------------------------------------------------------------------------
\* Helpers

Ids(table) == {r.id : r \in table}

MaxOf(S) == CHOOSE x \in S : \A y \in S : y <= x

\* INTEGER PRIMARY KEY without AUTOINCREMENT: the next rowid is max + 1.
NextId(table) == IF table = {} THEN 1 ELSE MaxOf(Ids(table)) + 1

\* User.set_password / User.check_password: str(hash(password + "demo_salt")),
\* a value that depends on the interpreter's hash salt.
PasswordHash(seed, password) == <<seed, password, "demo_salt">>

check_password(user, seed, password) ==
    user.password_hash = PasswordHash(seed, password)

UserRow(id, name, email, role, seed) ==
    [id |-> id, name |-> name, email |-> email, role |-> role,
     password_hash |-> PasswordHash(seed, "password")]

PatientRow(id, qid, name) == [id |-> id, qid |-> qid, name |-> name]

\* Dates are written as the number yyyymmdd.
MedicineRow(id, name, stock_level, expiry_date, status) ==
    [id |-> id, name |-> name, stock_level |-> stock_level,
     expiry_date |-> expiry_date, status |-> status]

ConsultationRow(id, patient_id, doctor_id, diagnosis) ==
    [id |-> id, patient_id |-> patient_id, doctor_id |-> doctor_id,
     diagnosis |-> diagnosis]

PrescriptionRow(id, consultation_id, medication, medicine_id) ==
    [id |-> id, consultation_id |-> consultation_id, medication |-> medication,
     dispensed |-> FALSE, medicine_id |-> medicine_id]

----------------------------------------------------------------------------
\* The demo dataset of seed_initial_data; b is the first id the table assigns.

SeedUserRows(b, seed) ==
    { UserRow(b,     "Dr. Aisha Al-Emadi", "a.emadi@healthsys.demo",   "Doctor",     seed),
      UserRow(b + 1, "Nadia Hassan",       "n.hassan@healthsys.demo",  "Nurse",      seed),
      UserRow(b + 2, "Dr. Omar Khalid",    "o.khalid@healthsys.demo",  "Doctor",     seed),
      UserRow(b + 3, "Layla Mahmoud",      "l.mahmoud@healthsys.demo", "Pharmacist", seed),
      UserRow(b + 4, "Admin User",         "admin@healthsys.demo",     "Admin",      seed) }

SeedPatientRows(b) ==
    { PatientRow(b,     "29850615001", "Fatima Nasser"),
      PatientRow(b + 1, "29901103002", "Mohammed Saleh"),
      PatientRow(b + 2, "29780228003", "Yousef Ali"),
      PatientRow(b + 3, "30010812004", "Sana Kamal") }

SeedMedicineRows(b) ==
    { MedicineRow(b,     "Metformin 500mg",   150, 20261231, "In Stock"),
      MedicineRow(b + 1, "Amoxicillin 250mg", 45,  20260831, "Low Stock"),
      MedicineRow(b + 2, "Panadol 500mg",     250, 20270131, "In Stock"),
      MedicineRow(b + 3, "Aspirin 75mg",      15,  20260228, "Reorder") }

\* Variant: the foreign keys are written as literals instead of p1.id, u1.id.
SeedConsultationRowsLiteralIds(b, ids) ==
    { ConsultationRow(b,     1, 1, "Hypertension"),
      ConsultationRow(b + 1, 2, 1, "Type 2 Diabetes"),
      ConsultationRow(b + 2, 3, 3, "Migraine") }

\* c1(p1, u1), c2(p2, u1), c3(p3, u3)
SeedConsultationRows(b, ids) ==
    { ConsultationRow(b,     ids.p,     ids.u,     "Hypertension"),
      ConsultationRow(b + 1, ids.p + 1, ids.u,     "Type 2 Diabetes"),
      ConsultationRow(b + 2, ids.p + 2, ids.u + 2, "Migraine") }

\* pr1(c1), pr2(c2, m1), pr3(c3)
SeedPrescriptionRows(b, ids) ==
    { PrescriptionRow(b,     ids.c,     "Lisinopril 10mg",  0),
      PrescriptionRow(b + 1, ids.c + 1, "Metformin 500mg",  ids.m),
      PrescriptionRow(b + 2, ids.c + 2, "Propranolol 40mg", 0) }

\* UNIQUE(user.email), UNIQUE(patient.qid): the commit raises IntegrityError.
EmailConflict(rows) == \E r \in rows : \E u \in users : u.email = r.email

\* Variant: patient.qid is not declared unique.
QidConflictUnchecked(rows) == FALSE

QidConflict(rows) == \E r \in rows : \E p \in patients : p.qid = r.qid

----------------------------------------------------------------------------
\* Stores a deployment can start from: a fresh database file, or one already
\* provisioned by hand (rows that do not come from seeding).

LegacyPatient == PatientRow(1, "28001010009", "Legacy Patient")

LegacyUser ==
    [id |-> 1, name |-> "Site Admin", email |-> "root@clinic.example",
     role |-> "Admin", password_hash |-> PasswordHash("h0", "s3cret")]

Init ==
    /\ \/ /\ users = {} /\ patients = {} /\ schema = FALSE
       \/ /\ users = {} /\ patients = {LegacyPatient} /\ schema = TRUE
       \/ /\ users = {LegacyUser} /\ patients = {LegacyPatient} /\ schema = TRUE
    /\ medicines = {}
    /\ consultations = {}
    /\ prescriptions = {}
    /\ _is_initialized = FALSE
    /\ _init_lock = NoThread
    /\ hashSeed = "h1"
    /\ session = NoSession
    /\ pc = [t \in Threads |-> "idle"]
    /\ seedIds = [t \in Threads |-> NoSeed]
    /\ req = [t \in Threads |-> NoReq]
    /\ resp = [t \in Threads |-> NoResp]
    /\ initRuns = 0
    /\ seedFailed = [t \in Threads |-> FALSE]
    /\ faulted = FALSE

----------------------------------------------------------------------------
\* initialize_database(), called by the before_request hook ensure_initialized

\* A request arrives: the hook calls initialize_database(), which goes for
\* the lock first.
StartRequest(t) ==
    /\ pc[t] = "idle"
    /\ pc' = [pc EXCEPT ![t] = "acquire"]
    /\ UNCHANGED <<storeVars, schema, procVars, session, seedIds, req, resp, histVars>>

\* Variant: the lock is taken without waiting for it to be free.
AcquireNoWait(t) ==
    /\ pc[t] = "acquire"
    /\ _init_lock' = t
    /\ pc' = [pc EXCEPT ![t] = "check_flag"]
    /\ UNCHANGED <<storeVars, schema, _is_initialized, hashSeed, session,
                   seedIds, req, resp, histVars>>

\* with _init_lock: blocks until the lock is free.
Acquire(t) ==
    /\ pc[t] = "acquire"
    /\ _init_lock = NoThread
    /\ _init_lock' = t
    /\ pc' = [pc EXCEPT ![t] = "check_flag"]
    /\ UNCHANGED <<storeVars, schema, _is_initialized, hashSeed, session,
                   seedIds, req, resp, histVars>>

\* Variant: the flag is not tested, the body runs on every call.
CheckFlagIgnored(t) ==
    /\ pc[t] = "check_flag"
    /\ pc' = [pc EXCEPT ![t] = "create_all"]
    /\ initRuns' = IF initRuns >= 2 THEN initRuns ELSE initRuns + 1
    /\ UNCHANGED <<storeVars, schema, procVars, session, seedIds, req, resp,
                   seedFailed, faulted>>

\* if not _is_initialized:
CheckFlag(t) ==
    /\ pc[t] = "check_flag"
    /\ pc' = [pc EXCEPT ![t] = IF _is_initialized THEN "release" ELSE "create_all"]
    /\ initRuns' = IF _is_initialized \/ initRuns >= 2 THEN initRuns ELSE initRuns + 1
    /\ UNCHANGED <<storeVars, schema, procVars, session, seedIds, req, resp,
                   seedFailed, faulted>>

\* db.create_all(): creates the tables that do not exist.
CreateAll(t) ==
    /\ pc[t] = "create_all"
    /\ schema' = TRUE
    /\ pc' = [pc EXCEPT ![t] = "seed_check"]
    /\ UNCHANGED <<storeVars, procVars, session, seedIds, req, resp, histVars>>

\* Variant: the exception leaves the lock held.
CreateAllRaiseLocked(t) ==
    /\ pc[t] = "create_all"
    /\ pc' = [pc EXCEPT ![t] = "responded"]
    /\ resp' = [resp EXCEPT ![t] = [status |-> 500, body |-> {}]]
    /\ faulted' = TRUE
    /\ UNCHANGED <<storeVars, schema, procVars, session, seedIds, req, initRuns,
                   seedFailed>>

\* db.create_all() raises (the database file cannot be opened or written):
\* nothing catches it, the with statement releases the lock, the exception
\* leaves the before_request hook and the request is answered 500 without
\* its handler.
CreateAllRaise(t) ==
    /\ pc[t] = "create_all"
    /\ _init_lock' = NoThread
    /\ pc' = [pc EXCEPT ![t] = "responded"]
    /\ resp' = [resp EXCEPT ![t] = [status |-> 500, body |-> {}]]
    /\ faulted' = TRUE
    /\ UNCHANGED <<storeVars, schema, _is_initialized, hashSeed, session, seedIds,
                   req, initRuns, seedFailed>>

\* Variant: the existence test guards the tables with a unique column only;
\* medicines, consultations and prescriptions are seeded on every start.
SeedCheckUniqueOnly(t) ==
    /\ pc[t] = "seed_check"
    /\ pc' = [pc EXCEPT ![t] = IF users = {} THEN "seed_users" ELSE "seed_medicines"]
    /\ UNCHANGED <<storeVars, schema, procVars, session, seedIds, req, resp, histVars>>

\* seed_initial_data(): if User.query.first() is None: ... else: skip.
SeedCheck(t) ==
    /\ pc[t] = "seed_check"
    /\ pc' = [pc EXCEPT ![t] = IF users = {} THEN "seed_users" ELSE "seed_skip"]
    /\ UNCHANGED <<storeVars, schema, procVars, session, seedIds, req, resp, histVars>>

\* add_all([u1..u5]); commit()
SeedUsers(t) ==
    /\ pc[t] = "seed_users"
    /\ LET b == NextId(users) IN
        /\ ~EmailConflict(SeedUserRows(b, hashSeed))
        /\ users' = users \cup SeedUserRows(b, hashSeed)
        /\ seedIds' = [seedIds EXCEPT ![t].u = b]
    /\ pc' = [pc EXCEPT ![t] = "seed_patients"]
    /\ UNCHANGED <<patients, medicines, consultations, prescriptions, schema,
                   procVars, session, req, resp, histVars>>

\* add_all([p1..p4]); commit()
SeedPatients(t) ==
    /\ pc[t] = "seed_patients"
    /\ LET b == NextId(patients) IN
        /\ ~QidConflict(SeedPatientRows(b))
        /\ patients' = patients \cup SeedPatientRows(b)
        /\ seedIds' = [seedIds EXCEPT ![t].p = b]
    /\ pc' = [pc EXCEPT ![t] = "seed_medicines"]
    /\ UNCHANGED <<users, medicines, consultations, prescriptions, schema,
                   procVars, session, req, resp, histVars>>

\* add_all([m1..m4]); commit()
SeedMedicines(t) ==
    /\ pc[t] = "seed_medicines"
    /\ LET b == NextId(medicines) IN
        /\ medicines' = medicines \cup SeedMedicineRows(b)
        /\ seedIds' = [seedIds EXCEPT ![t].m = b]
    /\ pc' = [pc EXCEPT ![t] = "seed_consultations"]
    /\ UNCHANGED <<users, patients, consultations, prescriptions, schema,
                   procVars, session, req, resp, histVars>>

\* add_all([c1..c3]); commit()
SeedConsultations(t) ==
    /\ pc[t] = "seed_consultations"
    /\ LET b == NextId(consultations) IN
        /\ consultations' = consultations \cup SeedConsultationRows(b, seedIds[t])
        /\ seedIds' = [seedIds EXCEPT ![t].c = b]
    /\ pc' = [pc EXCEPT ![t] = "seed_prescriptions"]
    /\ UNCHANGED <<users, patients, medicines, prescriptions, schema,
                   procVars, session, req, resp, histVars>>

\* add_all([pr1..pr3]); commit(); print("Database seeded successfully.")
SeedPrescriptions(t) ==
    /\ pc[t] = "seed_prescriptions"
    /\ LET b == NextId(prescriptions) IN
        prescriptions' = prescriptions \cup SeedPrescriptionRows(b, seedIds[t])
    /\ pc' = [pc EXCEPT ![t] = "seeded"]
    /\ UNCHANGED <<users, patients, medicines, consultations, schema,
                   procVars, session, seedIds, req, resp, histVars>>

SeedSteps == {"seed_users", "seed_patients", "seed_medicines",
              "seed_consultations", "seed_prescriptions"}

\* A step of the try block raises (a constraint violation, a locked or
\* unwritable database file): its commit did not happen.
SeedRaise(t) ==
    /\ pc[t] \in SeedSteps
    /\ pc' = [pc EXCEPT ![t] = "seed_except"]
    /\ seedFailed' = [seedFailed EXCEPT ![t] = TRUE]
    /\ faulted' = TRUE
    /\ UNCHANGED <<storeVars, schema, procVars, session, seedIds, req, resp, initRuns>>

\* except Exception as e: db.session.rollback(); print(...).  The rollback
\* discards the open transaction: what earlier steps committed stays.  The
\* exception is swallowed and seed_initial_data returns normally.
SeedRollback(t) ==
    /\ pc[t] = "seed_except"
    /\ pc' = [pc EXCEPT ![t] = "set_flag"]
    /\ seedIds' = [seedIds EXCEPT ![t] = NoSeed]
    /\ UNCHANGED <<storeVars, schema, procVars, session, req, resp, histVars>>

\* else: print("Database already contains data, skipping seeding.")
SeedSkip(t) ==
    /\ pc[t] = "seed_skip"
    /\ pc' = [pc EXCEPT ![t] = "set_flag"]
    /\ UNCHANGED <<storeVars, schema, procVars, session, seedIds, req, resp, histVars>>

\* seed_initial_data returns after the last commit.
SeedReturn(t) ==
    /\ pc[t] = "seeded"
    /\ pc' = [pc EXCEPT ![t] = "set_flag"]
    /\ seedIds' = [seedIds EXCEPT ![t] = NoSeed]
    /\ UNCHANGED <<storeVars, schema, procVars, session, req, resp, histVars>>

\* Variant: the flag is left as it is.
SetFlagSkipped(t) ==
    /\ pc[t] = "set_flag"
    /\ pc' = [pc EXCEPT ![t] = "release"]
    /\ UNCHANGED <<storeVars, schema, procVars, session, seedIds, req, resp,
                   histVars>>

\* _is_initialized = True
SetFlag(t) ==
    /\ pc[t] = "set_flag"
    /\ _is_initialized' = TRUE
    /\ pc' = [pc EXCEPT ![t] = "release"]
    /\ UNCHANGED <<storeVars, schema, _init_lock, hashSeed, session, seedIds,
                   req, resp, histVars>>

\* End of the with block; the hook returns and the request is dispatched.
Release(t) ==
    /\ pc[t] = "release"
    /\ _init_lock' = NoThread
    /\ pc' = [pc EXCEPT ![t] = "dispatch"]
    /\ seedFailed' = [seedFailed EXCEPT ![t] = FALSE]
    /\ UNCHANGED <<storeVars, schema, _is_initialized, hashSeed, session,
                   seedIds, req, resp, initRuns, faulted>>

----------------------------------------------------------------------------
\* Route handlers, run after the before_request hook has returned

\* Variant: every session passes.
login_required_open(s) == TRUE

\* login_required: 'user_id' in session
login_required(s) == s.user_id # 0

\* The view functions by endpoint name (app.url_map).
Endpoints ==
    {"api_login", "api_logout", "index", "dashboard_data", "get_users",
     "get_doctors", "get_patients", "get_patient", "get_patient_consultations",
     "add_patient", "update_patient", "get_consultations", "get_consultation",
     "add_consultation", "update_consultation", "get_inventory",
     "get_pending_prescriptions", "dispense_prescription"}

\* redirect(url_for(endpoint)): a 302 to the endpoint's URL; url_for raises
\* BuildError for a name that is no endpoint and the request ends in a 500.
redirect_url_for(endpoint) == IF endpoint \in Endpoints THEN 302 ELSE 500

\* The view function of route, called with view argument id, returns status
\* and the rows of the JSON body.
Reply(t, route, id, status, body) ==
    /\ req' = [req EXCEPT ![t] = [route |-> route, id |-> id,
                                  required_role |-> req[t].required_role]]
    /\ resp' = [resp EXCEPT ![t] = [status |-> status, body |-> body]]
    /\ pc' = [pc EXCEPT ![t] = "responded"]

\* A response without rows from a route without view argument.
Respond(t, route, status) == Reply(t, route, 0, status, {})

Emails == {"a.emadi@healthsys.demo", "n.hassan@healthsys.demo",
           "o.khalid@healthsys.demo", "l.mahmoud@healthsys.demo",
           "admin@healthsys.demo", "nobody@healthsys.demo"}

Passwords == {"password", "letmein"}

\* GET /: renders the page; reads the session, touches no table.
index(t) ==
    /\ pc[t] = "dispatch"
    /\ Respond(t, "index", 200)
    /\ UNCHANGED <<storeVars, schema, procVars, session, seedIds, histVars>>

\* POST /api/login
api_login(t, email, password) ==
    /\ pc[t] = "dispatch"
    /\ LET found == {u \in users : u.email = email} IN
       IF \E u \in found : check_password(u, hashSeed, password)
       THEN LET user == CHOOSE u \in found : TRUE IN
            /\ session' = [user_id |-> user.id, user_name |-> user.name,
                           user_role |-> user.role]
            /\ Respond(t, "api_login", 200)
       ELSE /\ Respond(t, "api_login", 401)
            /\ UNCHANGED session
    /\ UNCHANGED <<storeVars, schema, procVars, seedIds, histVars>>

\* Variant: only user_id is popped.
api_logout_user_id_only(t) ==
    /\ pc[t] = "dispatch"
    /\ session' = [session EXCEPT !.user_id = 0]
    /\ Respond(t, "api_logout", 200)
    /\ UNCHANGED <<storeVars, schema, procVars, seedIds, histVars>>

\* POST /api/logout
api_logout(t) ==
    /\ pc[t] = "dispatch"
    /\ session' = NoSession
    /\ Respond(t, "api_logout", 200)
    /\ UNCHANGED <<storeVars, schema, procVars, seedIds, histVars>>

\* What login_required answers instead of calling the view: redirect(url_for('login'))
LoginRedirect(t, route, id) == Reply(t, route, id, redirect_url_for("login"), {})

\* An exception leaves the view: 500 (the debugger page names the exception),
\* and the session's pending changes are rolled back when the request's
\* context is torn down.
Raise(t, route, id, exception) ==
    Reply(t, route, id, 500, {[exception |-> exception]})

\* Variant: the role is taken from the session cookie.
role_required_by_cookie(required_role, s) ==
    IF ~login_required(s) THEN "redirect"
    ELSE IF s.user_role # required_role THEN "forbidden"
    ELSE "call"

\* Variant: a required role that no user can have is not checked.
role_required_known_roles(required_role, s) ==
    IF ~login_required(s) THEN "redirect"
    ELSE IF required_role \notin Roles THEN "call"
    ELSE IF \A u \in users : u.id = s.user_id => u.role # required_role
    THEN "forbidden"
    ELSE "call"

\* role_required(required_role) around a view: "redirect" to the login page,
\* "forbidden" (403), or "call" the view. The user is read from the table.
role_required(required_role, s) ==
    IF ~login_required(s) THEN "redirect"
    ELSE IF \A u \in users : u.id = s.user_id => u.role # required_role
    THEN "forbidden"
    ELSE "call"

\* A request to a view decorated with @role_required(required_role); the view
\* itself answers 200 and touches nothing.
decorated_function(t, required_role) ==
    /\ pc[t] = "dispatch"
    /\ LET decision == role_required(required_role, session) IN
       /\ req' = [req EXCEPT ![t] = [route |-> "role_required", id |-> 0,
                                     required_role |-> required_role]]
       /\ resp' = [resp EXCEPT ![t] =
                     [status |-> CASE decision = "redirect" -> redirect_url_for("login")
                                   [] decision = "forbidden" -> 403
                                   [] decision = "call" -> 200,
                      body |-> {}]]
       /\ pc' = [pc EXCEPT ![t] = "responded"]
    /\ UNCHANGED <<storeVars, schema, procVars, session, seedIds, histVars>>

\* The guard in front of dispense_prescription: @login_required and nothing
\* else (role_required is defined but decorates no route).
DispenseGuard(s) == login_required(s)

\* Variant: the dispensed flag is not tested.
dispense_prescription_untested(t, id) ==
    /\ pc[t] = "dispatch"
    /\ IF ~DispenseGuard(session)
       THEN LoginRedirect(t, "dispense_prescription", id)
       ELSE IF id \notin Ids(prescriptions)
       THEN Reply(t, "dispense_prescription", id, 404, {})
       ELSE /\ req' = [req EXCEPT ![t] = [route |-> "dispense_prescription",
                                          id |-> id, required_role |-> ""]]
            /\ pc' = [pc EXCEPT ![t] = "dispense_commit"]
            /\ UNCHANGED resp
    /\ UNCHANGED <<storeVars, schema, procVars, session, seedIds, histVars>>

\* POST /api/pharmacy/prescriptions/<id>/dispense, up to the dispensed test:
\* login_required, get_or_404, if prescription.dispensed: 400
dispense_prescription(t, id) ==
    /\ pc[t] = "dispatch"
    /\ IF ~DispenseGuard(session)
       THEN LoginRedirect(t, "dispense_prescription", id)
       ELSE IF id \notin Ids(prescriptions)
       THEN Reply(t, "dispense_prescription", id, 404, {})
       ELSE IF \E p \in prescriptions : p.id = id /\ p.dispensed
       THEN Reply(t, "dispense_prescription", id, 400, {})
       ELSE /\ req' = [req EXCEPT ![t] = [route |-> "dispense_prescription",
                                          id |-> id, required_role |-> ""]]
            /\ pc' = [pc EXCEPT ![t] = "dispense_commit"]
            /\ UNCHANGED resp
    /\ UNCHANGED <<storeVars, schema, procVars, session, seedIds, histVars>>

\* Variant: the stock of the linked medicine is decremented.
dispense_commit_decrementing(t) ==
    /\ pc[t] = "dispense_commit"
    /\ prescriptions' =
          {IF p.id = req[t].id THEN [p EXCEPT !.dispensed = TRUE] ELSE p
             : p \in prescriptions}
    /\ LET prescription == CHOOSE p \in prescriptions : p.id = req[t].id IN
       medicines' =
          {IF m.id = prescription.medicine_id /\ m.stock_level > 0
           THEN [m EXCEPT !.stock_level = m.stock_level - 1] ELSE m
             : m \in medicines}
    /\ Reply(t, "dispense_prescription", req[t].id, 200, {})
    /\ UNCHANGED <<users, patients, consultations, schema, procVars,
                   session, seedIds, histVars>>

\* prescription.dispensed = True; db.session.commit(); 200
dispense_commit(t) ==
    /\ pc[t] = "dispense_commit"
    /\ prescriptions' =
          {IF p.id = req[t].id THEN [p EXCEPT !.dispensed = TRUE] ELSE p
             : p \in prescriptions}
    /\ Reply(t, "dispense_prescription", req[t].id, 200, {})
    /\ UNCHANGED <<users, patients, medicines, consultations, schema, procVars,
                   session, seedIds, histVars>>

----------------------------------------------------------------------------
\* The data routes

\* A key the JSON payload does not have; a string date.fromisoformat rejects.
Missing == "<missing>"

BadDate == "<not-a-date>"

\* Model.query.get(id)
Row(table, id) == CHOOSE r \in table : r.id = id

\* c.patient / c.doctor is None and .name raises AttributeError: SQLite does
\* not enforce the foreign keys (PRAGMA foreign_keys is off).
Dangling(c) == c.patient_id \notin Ids(patients) \/ c.doctor_id \notin Ids(users)

patient_name(c) == Row(patients, c.patient_id).name

doctor_name(c) == Row(users, c.doctor_id).name

\* GET /api/dashboard (at most five consultations are listed)
dashboard_data(t) ==
    /\ pc[t] = "dispatch"
    /\ IF ~login_required(session)
       THEN LoginRedirect(t, "dashboard_data", 0)
       ELSE IF \E c \in consultations : Dangling(c)
       THEN Raise(t, "dashboard_data", 0, "AttributeError")
       ELSE Reply(t, "dashboard_data", 0, 200,
                  {[total_patients |-> Cardinality(patients),
                    low_stock |-> Cardinality({m \in medicines :
                                                 m.status # "In Stock"}),
                    recent_consultations |->
                       {[patient_name |-> patient_name(c),
                         doctor_name |-> doctor_name(c),
                         diagnosis |-> c.diagnosis] : c \in consultations}]})
    /\ UNCHANGED <<storeVars, schema, procVars, session, seedIds, histVars>>

\* Variant: every role passes.
UsersGuardAnyRole(s) == TRUE

\* The role test of get_users: session.get('user_role') != 'Admin'
UsersGuard(s) == s.user_role = "Admin"

\* GET /api/users
get_users(t) ==
    /\ pc[t] = "dispatch"
    /\ IF ~login_required(session)
       THEN LoginRedirect(t, "get_users", 0)
       ELSE IF ~UsersGuard(session)
       THEN Reply(t, "get_users", 0, 403, {})
       ELSE Reply(t, "get_users", 0, 200,
                  {[id |-> u.id, name |-> u.name, email |-> u.email,
                    role |-> u.role] : u \in users})
    /\ UNCHANGED <<storeVars, schema, procVars, session, seedIds, histVars>>

\* GET /api/users/doctors: "Public endpoint for dropdown", no login_required
get_doctors(t) ==
    /\ pc[t] = "dispatch"
    /\ Reply(t, "get_doctors", 0, 200,
             {[id |-> d.id, name |-> d.name] : d \in {u \in users : u.role = "Doctor"}})
    /\ UNCHANGED <<storeVars, schema, procVars, session, seedIds, histVars>>

\* GET /api/patients
get_patients(t) ==
    /\ pc[t] = "dispatch"
    /\ IF ~login_required(session)
       THEN LoginRedirect(t, "get_patients", 0)
       ELSE Reply(t, "get_patients", 0, 200, patients)
    /\ UNCHANGED <<storeVars, schema, procVars, session, seedIds, histVars>>

\* GET /api/patients/<patient_id>
get_patient(t, patient_id) ==
    /\ pc[t] = "dispatch"
    /\ IF ~login_required(session)
       THEN LoginRedirect(t, "get_patient", patient_id)
       ELSE IF patient_id \notin Ids(patients)
       THEN Reply(t, "get_patient", patient_id, 404, {})
       ELSE Reply(t, "get_patient", patient_id, 200, {Row(patients, patient_id)})
    /\ UNCHANGED <<storeVars, schema, procVars, session, seedIds, histVars>>

\* GET /api/patients/<patient_id>/consultations: filter_by(patient_id=...),
\* the patient itself is not looked up
get_patient_consultations(t, patient_id) ==
    /\ pc[t] = "dispatch"
    /\ LET found == {c \in consultations : c.patient_id = patient_id} IN
       IF ~login_required(session)
       THEN LoginRedirect(t, "get_patient_consultations", patient_id)
       ELSE IF \E c \in found : c.doctor_id \notin Ids(users)
       THEN Raise(t, "get_patient_consultations", patient_id, "AttributeError")
       ELSE Reply(t, "get_patient_consultations", patient_id, 200,
                  {[id |-> c.id, diagnosis |-> c.diagnosis,
                    doctor_name |-> doctor_name(c)] : c \in found})
    /\ UNCHANGED <<storeVars, schema, procVars, session, seedIds, histVars>>

\* POST /api/patients; data is the JSON payload
add_patient(t, data) ==
    /\ pc[t] = "dispatch"
    /\ IF ~login_required(session)
       THEN LoginRedirect(t, "add_patient", 0) /\ UNCHANGED patients
       ELSE IF data.qid = Missing \/ data.name = Missing
       THEN Raise(t, "add_patient", 0, "KeyError") /\ UNCHANGED patients
       ELSE IF data.date_of_birth = BadDate
       THEN Raise(t, "add_patient", 0, "ValueError") /\ UNCHANGED patients
       ELSE LET new_patient == PatientRow(NextId(patients), data.qid, data.name) IN
            IF QidConflict({new_patient})
            THEN Raise(t, "add_patient", 0, "IntegrityError") /\ UNCHANGED patients
            ELSE /\ patients' = patients \cup {new_patient}
                 /\ Reply(t, "add_patient", 0, 201, {})
    /\ UNCHANGED <<users, medicines, consultations, prescriptions, schema,
                   procVars, session, seedIds, histVars>>

\* PUT /api/patients/<patient_id>
update_patient(t, patient_id, data) ==
    /\ pc[t] = "dispatch"
    /\ IF ~login_required(session)
       THEN LoginRedirect(t, "update_patient", patient_id) /\ UNCHANGED patients
       ELSE IF patient_id \notin Ids(patients)
       THEN Reply(t, "update_patient", patient_id, 404, {}) /\ UNCHANGED patients
       ELSE IF data.date_of_birth = BadDate
       THEN Raise(t, "update_patient", patient_id, "ValueError") /\ UNCHANGED patients
       ELSE LET patient == Row(patients, patient_id)
                updated == [patient EXCEPT
                              !.qid = IF data.qid = Missing THEN @ ELSE data.qid,
                              !.name = IF data.name = Missing THEN @ ELSE data.name]
            IN
            IF \E q \in patients \ {patient} : q.qid = updated.qid
            THEN /\ Raise(t, "update_patient", patient_id, "IntegrityError")
                 /\ UNCHANGED patients
            ELSE /\ patients' = (patients \ {patient}) \cup {updated}
                 /\ Reply(t, "update_patient", patient_id, 200, {})
    /\ UNCHANGED <<users, medicines, consultations, prescriptions, schema,
                   procVars, session, seedIds, histVars>>

\* GET /api/consultations
get_consultations(t) ==
    /\ pc[t] = "dispatch"
    /\ IF ~login_required(session)
       THEN LoginRedirect(t, "get_consultations", 0)
       ELSE IF \E c \in consultations : Dangling(c)
       THEN Raise(t, "get_consultations", 0, "AttributeError")
       ELSE Reply(t, "get_consultations", 0, 200,
                  {[id |-> c.id, patient_name |-> patient_name(c),
                    doctor_name |-> doctor_name(c),
                    diagnosis |-> c.diagnosis] : c \in consultations})
    /\ UNCHANGED <<storeVars, schema, procVars, session, seedIds, histVars>>

\* GET /api/consultations/<consultation_id>
get_consultation(t, consultation_id) ==
    /\ pc[t] = "dispatch"
    /\ IF ~login_required(session)
       THEN LoginRedirect(t, "get_consultation", consultation_id)
       ELSE IF consultation_id \notin Ids(consultations)
       THEN Reply(t, "get_consultation", consultation_id, 404, {})
       ELSE LET consultation == Row(consultations, consultation_id) IN
            IF Dangling(consultation)
            THEN Raise(t, "get_consultation", consultation_id, "AttributeError")
            ELSE Reply(t, "get_consultation", consultation_id, 200,
                       {[id |-> consultation.id,
                         patient_name |-> patient_name(consultation),
                         doctor_name |-> doctor_name(consultation),
                         diagnosis |-> consultation.diagnosis,
                         prescriptions |->
                            {[id |-> p.id, medication |-> p.medication,
                              dispensed |-> p.dispensed]
                               : p \in {r \in prescriptions :
                                          r.consultation_id = consultation.id}}]})
    /\ UNCHANGED <<storeVars, schema, procVars, session, seedIds, histVars>>

\* Variant: the new rows are marked dispensed.
NewPrescriptionRowsDispensed(b, consultation_id, prescriptions_data) ==
    {[PrescriptionRow(b + i - 1, consultation_id,
                      prescriptions_data[i].medication, 0) EXCEPT !.dispensed = TRUE]
       : i \in 1..Len(prescriptions_data)}

\* The rows of the prescriptions list of the payload, with ids from b on;
\* a prescription is created without dispensed and takes the column default.
NewPrescriptionRows(b, consultation_id, prescriptions_data) ==
    {PrescriptionRow(b + i - 1, consultation_id, prescriptions_data[i].medication, 0)
       : i \in 1..Len(prescriptions_data)}

\* The Consultation constructor raises: a key is missing or the date is not
\* an ISO date.
BadConsultation(data) ==
    \/ data.patient_id = 0
    \/ data.doctor_id = 0
    \/ data.consultation_date \in {Missing, BadDate}

\* The Prescription constructor raises for entry i of the prescriptions list.
BadPrescription(p_data) ==
    p_data.medication = Missing \/ p_data.dosage = Missing

\* Variant: the flush persists the consultation, and each prescription is
\* persisted as it is added.
add_consultation_autocommit(t, data) ==
    /\ pc[t] = "dispatch"
    /\ Cardinality(consultations) < MaxConsultations
    /\ IF ~login_required(session)
       THEN /\ LoginRedirect(t, "add_consultation", 0)
            /\ UNCHANGED <<consultations, prescriptions>>
       ELSE IF BadConsultation(data)
       THEN /\ Raise(t, "add_consultation", 0,
                     IF /\ data.patient_id # 0 /\ data.doctor_id # 0
                        /\ data.consultation_date = BadDate
                     THEN "ValueError" ELSE "KeyError")
            /\ UNCHANGED <<consultations, prescriptions>>
       ELSE LET new_consultation ==
                   ConsultationRow(NextId(consultations), data.patient_id,
                                   data.doctor_id, data.diagnosis)
                good == {i \in 1..Len(data.prescriptions) :
                           \A j \in 1..i : ~BadPrescription(data.prescriptions[j])}
            IN
            /\ consultations' = consultations \cup {new_consultation}
            /\ prescriptions' = prescriptions \cup
                  NewPrescriptionRows(NextId(prescriptions), new_consultation.id,
                                      SubSeq(data.prescriptions, 1, Cardinality(good)))
            /\ IF Cardinality(good) = Len(data.prescriptions)
               THEN Reply(t, "add_consultation", 0, 201, {})
               ELSE Raise(t, "add_consultation", 0, "KeyError")
    /\ UNCHANGED <<users, patients, medicines, schema, procVars, session,
                   seedIds, histVars>>

\* POST /api/consultations: add, flush, add the prescriptions, commit; an
\* exception before the commit leaves the transaction to be rolled back when
\* the request ends.
add_consultation(t, data) ==
    /\ pc[t] = "dispatch"
    /\ Cardinality(consultations) < MaxConsultations
    /\ IF ~login_required(session)
       THEN /\ LoginRedirect(t, "add_consultation", 0)
            /\ UNCHANGED <<consultations, prescriptions>>
       ELSE IF \/ BadConsultation(data)
               \/ \E i \in 1..Len(data.prescriptions) :
                     BadPrescription(data.prescriptions[i])
       THEN /\ Raise(t, "add_consultation", 0,
                     IF /\ data.patient_id # 0 /\ data.doctor_id # 0
                        /\ data.consultation_date = BadDate
                     THEN "ValueError" ELSE "KeyError")
            /\ UNCHANGED <<consultations, prescriptions>>
       ELSE LET new_consultation ==
                   ConsultationRow(NextId(consultations), data.patient_id,
                                   data.doctor_id, data.diagnosis)
            IN
            /\ consultations' = consultations \cup {new_consultation}
            /\ prescriptions' = prescriptions \cup
                  NewPrescriptionRows(NextId(prescriptions), new_consultation.id,
                                      data.prescriptions)
            /\ Reply(t, "add_consultation", 0, 201, {})
    /\ UNCHANGED <<users, patients, medicines, schema, procVars, session,
                   seedIds, histVars>>

\* PUT /api/consultations/<consultation_id>: the prescriptions are not touched
update_consultation(t, consultation_id, data) ==
    /\ pc[t] = "dispatch"
    /\ IF ~login_required(session)
       THEN /\ LoginRedirect(t, "update_consultation", consultation_id)
            /\ UNCHANGED consultations
       ELSE IF consultation_id \notin Ids(consultations)
       THEN /\ Reply(t, "update_consultation", consultation_id, 404, {})
            /\ UNCHANGED consultations
       ELSE IF data.consultation_date = BadDate
       THEN /\ Raise(t, "update_consultation", consultation_id, "ValueError")
            /\ UNCHANGED consultations
       ELSE LET consultation == Row(consultations, consultation_id)
                updated == [consultation EXCEPT
                              !.patient_id = IF data.patient_id = 0 THEN @
                                             ELSE data.patient_id,
                              !.doctor_id = IF data.doctor_id = 0 THEN @
                                            ELSE data.doctor_id,
                              !.diagnosis = IF data.diagnosis = Missing THEN @
                                            ELSE data.diagnosis]
            IN
            /\ consultations' = (consultations \ {consultation}) \cup {updated}
            /\ Reply(t, "update_consultation", consultation_id, 200, {})
    /\ UNCHANGED <<users, patients, medicines, prescriptions, schema, procVars,
                   session, seedIds, histVars>>

\* Variant: the status is computed from stock_level.
get_inventory_derived(t) ==
    /\ pc[t] = "dispatch"
    /\ IF ~login_required(session)
       THEN LoginRedirect(t, "get_inventory", 0)
       ELSE Reply(t, "get_inventory", 0, 200,
                  {[id |-> item.id, name |-> item.name,
                    stock_level |-> item.stock_level,
                    expiry_date |-> item.expiry_date,
                    status |-> IF item.stock_level <= 10 THEN "Low Stock"
                               ELSE "In Stock"] : item \in medicines})
    /\ UNCHANGED <<storeVars, schema, procVars, session, seedIds, histVars>>

\* GET /api/pharmacy/inventory: the columns of each row, status included
get_inventory(t) ==
    /\ pc[t] = "dispatch"
    /\ IF ~login_required(session)
       THEN LoginRedirect(t, "get_inventory", 0)
       ELSE Reply(t, "get_inventory", 0, 200,
                  {[id |-> item.id, name |-> item.name,
                    stock_level |-> item.stock_level,
                    expiry_date |-> item.expiry_date,
                    status |-> item.status] : item \in medicines})
    /\ UNCHANGED <<storeVars, schema, procVars, session, seedIds, histVars>>

\* Prescription.query.filter_by(dispensed=False).join(Consultation)
pending_prescriptions ==
    {p \in prescriptions :
        ~p.dispensed /\ p.consultation_id \in Ids(consultations)}

\* GET /api/pharmacy/prescriptions
get_pending_prescriptions(t) ==
    /\ pc[t] = "dispatch"
    /\ IF ~login_required(session)
       THEN LoginRedirect(t, "get_pending_prescriptions", 0)
       ELSE IF \E p \in pending_prescriptions :
                  Dangling(Row(consultations, p.consultation_id))
       THEN Raise(t, "get_pending_prescriptions", 0, "AttributeError")
       ELSE Reply(t, "get_pending_prescriptions", 0, 200,
                  {[id |-> p.id,
                    patient_name |-> patient_name(Row(consultations, p.consultation_id)),
                    medication |-> p.medication,
                    doctor_name |-> doctor_name(Row(consultations, p.consultation_id)),
                    consultation_id |-> p.consultation_id]
                     : p \in pending_prescriptions})
    /\ UNCHANGED <<storeVars, schema, procVars, session, seedIds, histVars>>

\* The response is sent and the worker is free again.
Finish(t) ==
    /\ pc[t] = "responded"
    /\ pc' = [pc EXCEPT ![t] = "idle"]
    /\ req' = [req EXCEPT ![t] = NoReq]
    /\ resp' = [resp EXCEPT ![t] = NoResp]
    /\ UNCHANGED <<storeVars, schema, procVars, session, seedIds, histVars>>

\* The server process is stopped while idle and a new one started on the same
\* database file: the module globals are fresh, the store and the browser's
\* cookie persist.
Restart ==
    /\ \A t \in Threads : pc[t] = "idle"
    /\ _is_initialized' = FALSE
    /\ _init_lock' = NoThread
    /\ hashSeed' \in HashSeeds
    /\ initRuns' = 0
    /\ UNCHANGED <<storeVars, schema, session, threadVars, seedFailed, faulted>>

\* The gate: initialize_database() in front of every request.
Gate(t) ==
    \/ StartRequest(t)
    \/ Acquire(t)
    \/ CheckFlag(t)
    \/ CreateAll(t)
    \/ CreateAllRaise(t)
    \/ SeedCheck(t)
    \/ SeedUsers(t)
    \/ SeedPatients(t)
    \/ SeedMedicines(t)
    \/ SeedConsultations(t)
    \/ SeedPrescriptions(t)
    \/ SeedRaise(t)
    \/ SeedRollback(t)
    \/ SeedSkip(t)
    \/ SeedReturn(t)
    \/ SetFlag(t)
    \/ Release(t)

\* The server under requests for the page only.
GateNext ==
    \/ \E t \in Threads : Gate(t)
    \/ \E t \in Threads : index(t)
    \/ \E t \in Threads : Finish(t)
    \/ Restart

GateSpec == Init /\ [][GateNext]_vars

\* A step of initialize_database() by the thread inside the with block.
InsideLock(t) ==
    \/ CheckFlag(t)
    \/ CreateAll(t)
    \/ CreateAllRaise(t)
    \/ SeedCheck(t)
    \/ SeedUsers(t)
    \/ SeedPatients(t)
    \/ SeedMedicines(t)
    \/ SeedConsultations(t)
    \/ SeedPrescriptions(t)
    \/ SeedRaise(t)
    \/ SeedRollback(t)
    \/ SeedSkip(t)
    \/ SeedReturn(t)
    \/ SetFlag(t)
    \/ Release(t)

\* Fair scheduling: a thread inside the with block keeps running, and a
\* thread waiting for _init_lock gets it if it is free again and again.
FairGateSpec ==
    /\ Init
    /\ [][GateNext]_vars
    /\ \A t \in Threads : WF_vars(InsideLock(t))
    /\ \A t \in Threads : SF_vars(Acquire(t))

\* The server from a cold start under parallel requests for the page, the
\* session routes and the dispense route.
Next ==
    \/ GateNext
    \/ \E t \in Threads : \E e \in Emails, pw \in Passwords : api_login(t, e, pw)
    \/ \E t \in Threads : api_logout(t)
    \/ \E t \in Threads :
         \E id \in Ids(prescriptions) \cup {NextId(prescriptions)} :
            dispense_prescription(t, id)
    \/ \E t \in Threads : dispense_commit(t)

Spec == Init /\ [][Next]_vars

----------------------------------------------------------------------------
\* The server after warm-up: a first request has created the tables of a
\* fresh database file and seeded them, and _is_initialized is set.

WarmInit ==
    /\ users = SeedUserRows(1, "h1")
    /\ patients = SeedPatientRows(1)
    /\ medicines = SeedMedicineRows(1)
    /\ consultations = SeedConsultationRows(1, [u |-> 1, p |-> 1, m |-> 1, c |-> 0])
    /\ prescriptions = SeedPrescriptionRows(1, [u |-> 1, p |-> 1, m |-> 1, c |-> 1])
    /\ schema = TRUE
    /\ _is_initialized = TRUE
    /\ _init_lock = NoThread
    /\ hashSeed = "h1"
    /\ session = NoSession
    /\ pc = [t \in Threads |-> "idle"]
    /\ seedIds = [t \in Threads |-> NoSeed]
    /\ req = [t \in Threads |-> NoReq]
    /\ resp = [t \in Threads |-> NoResp]
    /\ initRuns = 1
    /\ seedFailed = [t \in Threads |-> FALSE]
    /\ faulted = FALSE

\* The gate once _is_initialized is set: lock, test the flag, unlock.
WarmGate(t) ==
    \/ StartRequest(t)
    \/ Acquire(t)
    \/ CheckFlag(t)
    \/ Release(t)

\* Inputs of the requests

PatientIds == {1, NextId(patients)}

ConsultationIds == {1, NextId(consultations)}

PrescriptionIds == Ids(prescriptions) \cup {NextId(prescriptions)}

PatientPayloads ==
    {[qid |-> "30101010005", name |-> "Huda Saad",     date_of_birth |-> "2010-10-10"],
     [qid |-> "29901103002", name |-> "Mohammed Saleh", date_of_birth |-> Missing],
     [qid |-> Missing,       name |-> "Huda Saad",     date_of_birth |-> Missing],
     [qid |-> "30101010005", name |-> "Huda Saad",     date_of_birth |-> BadDate]}

PatientUpdates ==
    {[qid |-> Missing,       name |-> "Fatima Al-Nasser", date_of_birth |-> Missing],
     [qid |-> "29901103002", name |-> Missing,            date_of_birth |-> Missing],
     [qid |-> Missing,       name |-> Missing,            date_of_birth |-> BadDate]}

ConsultationPayloads ==
    {[patient_id |-> 1, doctor_id |-> 3, consultation_date |-> "2026-11-02",
      diagnosis |-> "Influenza",
      prescriptions |-> <<[medication |-> "Oseltamivir 75mg",
                           dosage |-> "1 capsule"]>>],
     [patient_id |-> 9, doctor_id |-> 3, consultation_date |-> "2026-11-02",
      diagnosis |-> "Influenza",
      prescriptions |-> <<[medication |-> "Oseltamivir 75mg",
                           dosage |-> "1 capsule"]>>],
     [patient_id |-> 1, doctor_id |-> 3, consultation_date |-> "2026-11-02",
      diagnosis |-> "Influenza",
      prescriptions |-> <<[medication |-> "Oseltamivir 75mg",
                           dosage |-> "1 capsule"],
                          [medication |-> Missing, dosage |-> "1 capsule"]>>],
     [patient_id |-> 1, doctor_id |-> 3, consultation_date |-> "2026-11-02",
      diagnosis |-> "Influenza",
      prescriptions |-> <<[medication |-> "Oseltamivir 75mg",
                           dosage |-> Missing]>>],
     [patient_id |-> 1, doctor_id |-> 3, consultation_date |-> BadDate,
      diagnosis |-> "Influenza", prescriptions |-> <<>>]}

ConsultationUpdates ==
    {[patient_id |-> 4, doctor_id |-> 0, consultation_date |-> Missing,
      diagnosis |-> "Hypertension, stage 1"],
     [patient_id |-> 0, doctor_id |-> 0, consultation_date |-> BadDate,
      diagnosis |-> Missing]}

\* One request to one of the data routes.
DataRoute(t) ==
    \/ dashboard_data(t)
    \/ get_users(t)
    \/ get_doctors(t)
    \/ get_patients(t)
    \/ \E id \in PatientIds : get_patient(t, id)
    \/ \E id \in PatientIds : get_patient_consultations(t, id)
    \/ \E data \in PatientPayloads : add_patient(t, data)
    \/ \E id \in PatientIds : \E data \in PatientUpdates : update_patient(t, id, data)
    \/ get_consultations(t)
    \/ \E id \in ConsultationIds : get_consultation(t, id)
    \/ \E data \in ConsultationPayloads : add_consultation(t, data)
    \/ \E id \in ConsultationIds :
          \E data \in ConsultationUpdates : update_consultation(t, id, data)
    \/ get_inventory(t)
    \/ get_pending_prescriptions(t)
    \/ \E id \in PrescriptionIds : dispense_prescription(t, id)
    \/ dispense_commit(t)

\* No other worker is handling a request.
Alone(t) == \A u \in Threads \ {t} : pc[u] = "idle"

\* The warm server under requests for every route, one request at a time.
ApiNext ==
    \/ \E t \in Threads : Alone(t) /\ WarmGate(t)
    \/ \E t \in Threads :
          Alone(t) /\ \E e \in Emails, pw \in Passwords : api_login(t, e, pw)
    \/ \E t \in Threads : Alone(t) /\ api_logout(t)
    \/ \E t \in Threads : Alone(t) /\ DataRoute(t)
    \/ \E t \in Threads : Finish(t)

ApiSpec == WarmInit /\ [][ApiNext]_vars

\* The warm server under parallel requests to the session and pharmacy routes.
PharmacyNext ==
    \/ \E t \in Threads : WarmGate(t)
    \/ \E t \in Threads : \E e \in Emails, pw \in Passwords : api_login(t, e, pw)
    \/ \E t \in Threads : api_logout(t)
    \/ \E t \in Threads : \E id \in PrescriptionIds : dispense_prescription(t, id)
    \/ \E t \in Threads : dispense_commit(t)
    \/ \E t \in Threads : Finish(t)

PharmacySpec == WarmInit /\ [][PharmacyNext]_vars

\* The server from a cold start under parallel requests for a login of the
\* seeded nurse and to the routes that write patients.
PatientNext ==
    \/ \E t \in Threads : Gate(t)
    \/ \E t \in Threads : api_login(t, "n.hassan@healthsys.demo", "password")
    \/ \E t \in Threads : \E data \in PatientPayloads : add_patient(t, data)
    \/ \E t \in Threads :
          \E id \in PatientIds : \E data \in PatientUpdates :
             update_patient(t, id, data)
    \/ \E t \in Threads : Finish(t)

PatientSpec == Init /\ [][PatientNext]_vars

\* Session cookies a request to a role-guarded view can carry: none, those of
\* logged-in users, one whose user row is gone, and one whose role differs
\* from the role in the user's row.
RoleSessions ==
    {NoSession,
     [user_id |-> 5, user_name |-> "Admin User", user_role |-> "Admin"],
     [user_id |-> 1, user_name |-> "Dr. Aisha Al-Emadi", user_role |-> "Doctor"],
     [user_id |-> 4, user_name |-> "Layla Mahmoud", user_role |-> "Pharmacist"],
     [user_id |-> 9, user_name |-> "Site Admin", user_role |-> "Admin"],
     [user_id |-> 2, user_name |-> "Nadia Hassan", user_role |-> "Admin"]}

\* Roles a view can require: the four of the system and one that no user has.
RequiredRoles == Roles \cup {"Auditor"}

RoleInit ==
    /\ users = SeedUserRows(1, "h1")
    /\ patients = SeedPatientRows(1)
    /\ medicines = SeedMedicineRows(1)
    /\ consultations = SeedConsultationRows(1, [u |-> 1, p |-> 1, m |-> 1, c |-> 0])
    /\ prescriptions = SeedPrescriptionRows(1, [u |-> 1, p |-> 1, m |-> 1, c |-> 1])
    /\ schema = TRUE
    /\ _is_initialized = TRUE
    /\ _init_lock = NoThread
    /\ hashSeed = "h1"
    /\ session \in RoleSessions
    /\ pc = [t \in Threads |-> "idle"]
    /\ seedIds = [t \in Threads |-> NoSeed]
    /\ req = [t \in Threads |-> NoReq]
    /\ resp = [t \in Threads |-> NoResp]
    /\ initRuns = 1
    /\ seedFailed = [t \in Threads |-> FALSE]
    /\ faulted = FALSE

\* The warm server under parallel requests to views decorated with
\* role_required.
RoleNext ==
    \/ \E t \in Threads : WarmGate(t)
    \/ \E t \in Threads : \E r \in RequiredRoles : decorated_function(t, r)
    \/ \E t \in Threads : Finish(t)

RoleSpec == RoleInit /\ [][RoleNext]_vars

----------------------------------------------------------------------------
\* Vocabulary of the properties

\* Positions at which a thread holds _init_lock.
GatePcs == {"check_flag", "create_all", "seed_check", "seeded", "seed_skip",
            "seed_except", "set_flag", "release"} \cup SeedSteps

\* Positions at which the before_request hook has returned and the route
\* handler runs.
HandlerPcs == {"dispatch", "dispense_commit"}

PastGate(t) == pc[t] \in HandlerPcs \/ (pc[t] = "responded" /\ req[t].route # "")

SeedEmails == {"a.emadi@healthsys.demo", "n.hassan@healthsys.demo",
               "o.khalid@healthsys.demo", "l.mahmoud@healthsys.demo",
               "admin@healthsys.demo"}

SeedQids == {"29850615001", "29901103002", "29780228003", "30010812004"}

SeedMedicineNames == {"Metformin 500mg", "Amoxicillin 250mg", "Panadol 500mg",
                      "Aspirin 75mg"}

SeedDiagnoses == {"Hypertension", "Type 2 Diabetes", "Migraine"}

SeedMedications == {"Lisinopril 10mg", "Metformin 500mg", "Propranolol 40mg"}

\* Rows that were in the store before the first process started.
HasLegacyRows == LegacyPatient \in patients \/ LegacyUser \in users

\* The store holds no row of the demo dataset.
NoSeedRows ==
    /\ \A u \in users : u.email \notin SeedEmails
    /\ \A p \in patients : p.qid \notin SeedQids
    /\ \A m \in medicines : m.name \notin SeedMedicineNames
    /\ \A c \in consultations : c.diagnosis \notin SeedDiagnoses
    /\ \A r \in prescriptions : r.medication \notin SeedMedications

\* The store holds the whole demo dataset, cross-references included
\* (whatever the dispensed flags have become since).
HoldsSeed ==
    /\ {u.email : u \in users} \cap SeedEmails = SeedEmails
    /\ {p.qid : p \in patients} \cap SeedQids = SeedQids
    /\ {m.name : m \in medicines} \cap SeedMedicineNames = SeedMedicineNames
    /\ \A d \in SeedDiagnoses : \E c \in consultations :
          /\ c.diagnosis = d
          /\ c.patient_id \in Ids(patients)
          /\ c.doctor_id \in Ids(users)
    /\ \A n \in SeedMedications : \E r \in prescriptions :
          /\ r.medication = n
          /\ r.consultation_id \in Ids(consultations)

----------------------------------------------------------------------------
\* Properties

C2_Idempotent ==
    [][HoldsSeed =>
          \A t \in Threads :
             (pc[t] \in GatePcs /\ pc'[t] # pc[t]) => UNCHANGED storeVars]_vars

\* A fresh process runs seed_initial_data on the seeded store and skips.
C2_Witness ==
    /\ HoldsSeed
    /\ ~_is_initialized
    /\ \E t \in Threads : pc[t] = "seed_skip"

\* C3: seeding is all-or-nothing: once seed_initial_data has handled an error
\* of one of its steps, the store holds none of the seed rows.
C3_AllOrNothing ==
    \A t \in Threads : (pc[t] = "set_flag" /\ seedFailed[t]) => NoSeedRows

\* C4: when seeding has failed during a call of initialize_database(), the
\* flag _is_initialized is still false as that call leaves the locked region.
C4_FlagStaysFalse ==
    \A t \in Threads : (pc[t] = "release" /\ seedFailed[t]) => ~_is_initialized

\* C5: while a request handler runs, the store holds the whole seed dataset
\* or no seed row at all, never a part of it.
C5_NeverPartial ==
    \A t \in Threads : pc[t] \in HandlerPcs => (HoldsSeed \/ NoSeedRows)

\* C6: a failure of initialisation is never fatal to the request: every
\* request that is answered had its route handler executed.
C6_NeverFatal ==
    \A t \in Threads : pc[t] = "responded" => req[t].route # ""

\* C7: a store that held rows before the first call of initialize_database()
\* is never seeded: no seeding step changes a table of it.
C7_PopulatedNeverSeeded ==
    [][HasLegacyRows =>
          \A t \in Threads :
             (pc[t] \in SeedSteps /\ pc'[t] # pc[t]) => UNCHANGED storeVars]_vars

\* C8 as stated: once _is_initialized is true, no call of
\* initialize_database() acquires _init_lock.
C8_FastPath ==
    [][_is_initialized => (_init_lock' = _init_lock \/ _init_lock' = NoThread)]_vars

\* C8, amended: once _is_initialized is true, a call of initialize_database()
\* still acquires _init_lock, and while holding it only tests the flag and
\* releases the lock: it runs neither db.create_all nor seed_initial_data and
\* changes neither the store nor the flag.
C8_LockedCheckOnly ==
    /\ [](\A t \in Threads : pc[t] = "check_flag" => _init_lock = t)
    /\ [][\A t \in Threads :
            (_is_initialized /\ pc[t] = "check_flag" /\ pc'[t] # pc[t]) =>
               /\ pc'[t] = "release"
               /\ UNCHANGED <<storeVars, schema, _is_initialized>>]_vars

\* After warm-up a caller holds the lock for the flag test while another
\* caller waits for it.
C8_Witness ==
    /\ _is_initialized
    /\ \E t \in Threads :
          /\ pc[t] = "check_flag"
          /\ \E u \in Threads \ {t} : pc[u] = "acquire"

\* C9: when seed_initial_data has run through without an error, every seeded
\* consultation refers to a seeded patient and a seeded user and every
\* seeded prescription to a seeded consultation; on a store that was empty
\* there are exactly 5 users (one Admin, one Nurse, one Pharmacist, two
\* Doctors), 4 patients, 4 medicines, 3 consultations and 3 prescriptions.
C9_SeedDataset ==
    \A t \in Threads : pc[t] = "seeded" =>
       /\ \A c \in consultations :
             /\ \E p \in patients : p.id = c.patient_id /\ p.qid \in SeedQids
             /\ \E u \in users : u.id = c.doctor_id /\ u.email \in SeedEmails
       /\ \A r \in prescriptions :
             \E c \in consultations :
                c.id = r.consultation_id /\ c.diagnosis \in SeedDiagnoses
       /\ ~HasLegacyRows =>
             /\ Cardinality(users) = 5
             /\ Cardinality({u \in users : u.role = "Admin"}) = 1
             /\ Cardinality({u \in users : u.role = "Nurse"}) = 1
             /\ Cardinality({u \in users : u.role = "Pharmacist"}) = 1
             /\ Cardinality({u \in users : u.role = "Doctor"}) = 2
             /\ Cardinality(patients) = 4
             /\ Cardinality(medicines) = 4
             /\ Cardinality(consultations) = 3
             /\ Cardinality(prescriptions) = 3

\* seed_initial_data has just seeded an empty store.
C9_Witness ==
    /\ ~HasLegacyRows
    /\ \E t \in Threads : pc[t] = "seeded"

\* C10: a dispense request of an authenticated user whose role is neither
\* Admin nor Pharmacist is denied: it never gets as far as setting the
\* dispensed flag.
C10_DispenseByRole ==
    [][\A t \in Threads :
          (/\ pc[t] = "dispatch"
           /\ login_required(session)
           /\ session.user_role \notin {"Admin", "Pharmacist"})
             => pc'[t] # "dispense_commit"]_vars

----------------------------------------------------------------------------
\* Access control of the routes

\* The routes that read or write users, patients, consultations, medicines
\* or prescriptions.
DataRoutes == Endpoints \ {"index", "api_login", "api_logout"}

\* The request carries no logged-in session: the cookie has no user_id.
Anonymous == session.user_id = 0

\* Thread t answers a request in this step.
Answers(t) == pc[t] = "dispatch" /\ pc'[t] = "responded"

\* The response of t carries no rows, is neither a success nor the 403 of a
\* failed role test, and the store is as before.
DeniedUnauthenticated(t) ==
    /\ resp'[t].body = {}
    /\ resp'[t].status \notin {200, 201, 403}
    /\ UNCHANGED storeVars

\* C11 as stated: without a logged-in session no data route returns data or
\* changes the store, and the denial is not the 403 of a failed role test.
C11_EveryDataRouteGuarded ==
    [][\A t \in Threads :
          (Answers(t) /\ Anonymous /\ req'[t].route \in DataRoutes)
             => DeniedUnauthenticated(t)]_vars

\* C11, amended: without a logged-in session no data route other than
\* get_doctors returns data or changes the store, and its denial is not the
\* 403 of a failed role test; get_doctors is public and answers any request,
\* logged in or not, with the id and name of every user whose role is Doctor.
C11_GuardedExceptDoctors ==
    [][\A t \in Threads :
          /\ (/\ Answers(t)
              /\ Anonymous
              /\ req'[t].route \in DataRoutes \ {"get_doctors"})
                => DeniedUnauthenticated(t)
          /\ (Answers(t) /\ req'[t].route = "get_doctors")
                => /\ resp'[t].status = 200
                   /\ resp'[t].body =
                         {[id |-> u.id, name |-> u.name]
                            : u \in {d \in users : d.role = "Doctor"}}
                   /\ UNCHANGED storeVars]_vars

\* A request for the patient list without a session has been turned away.
C11_Witness ==
    /\ session = NoSession
    /\ \E t \in Threads :
          /\ pc[t] = "responded"
          /\ req[t].route = "get_patients"
          /\ resp[t].body = {}
          /\ resp[t].status # 200

\* C12: for an authenticated session role_required(R) calls the view exactly
\* when the user row of the session's user_id has role R, and answers 403
\* without calling the view otherwise, also when no user row has that id.
C12_RoleOfUserRow ==
    \A t \in Threads :
       (/\ pc[t] = "responded"
        /\ req[t].route = "role_required"
        /\ ~Anonymous)
          => IF \E u \in users :
                   u.id = session.user_id /\ u.role = req[t].required_role
             THEN resp[t].status = 200
             ELSE resp[t].status = 403

\* A session whose cookie says Admin while its user row says Nurse has been
\* refused a view that requires Admin.
C12_Witness ==
    /\ session.user_role = "Admin"
    /\ \E u \in users : u.id = session.user_id /\ u.role = "Nurse"
    /\ \E t \in Threads :
          /\ pc[t] = "responded"
          /\ req[t].route = "role_required"
          /\ req[t].required_role = "Admin"
          /\ resp[t].status = 403

\* C13: a view that requires a role outside Admin, Doctor, Nurse, Pharmacist
\* is called for no session at all.
C13_FailClosed ==
    \A t \in Threads :
       (/\ pc[t] = "responded"
        /\ req[t].route = "role_required"
        /\ req[t].required_role \notin Roles)
          => resp[t].status # 200

\* A logged-in Admin has been refused a view that requires an unknown role.
C13_Witness ==
    /\ session.user_role = "Admin"
    /\ \E u \in users : u.id = session.user_id /\ u.role = "Admin"
    /\ \E t \in Threads :
          /\ pc[t] = "responded"
          /\ req[t].route = "role_required"
          /\ req[t].required_role \notin Roles
          /\ resp[t].status = 403

\* C14: a request without a session to a route behind login_required is
\* answered with a redirect (302) to the login page.
C14_RedirectToLogin ==
    [][\A t \in Threads :
          (/\ Answers(t)
           /\ Anonymous
           /\ req'[t].route \in DataRoutes \ {"get_doctors"})
             => resp'[t].status = 302]_vars

\* C15: get_users answers an authenticated session whose role is not Admin
\* with 403 and no user rows, and an authenticated Admin with 200 and the id,
\* name, email and role of every user.
C15_UsersAdminOnly ==
    [][\A t \in Threads :
          (Answers(t) /\ ~Anonymous /\ req'[t].route = "get_users")
             => IF session.user_role = "Admin"
                THEN /\ resp'[t].status = 200
                     /\ resp'[t].body =
                           {[id |-> u.id, name |-> u.name, email |-> u.email,
                             role |-> u.role] : u \in users}
                ELSE /\ resp'[t].status = 403
                     /\ resp'[t].body = {}]_vars

\* A logged-in Nurse has been refused the user list.
C15_Witness ==
    /\ session.user_role = "Nurse"
    /\ \E t \in Threads :
          /\ pc[t] = "responded"
          /\ req[t].route = "get_users"
          /\ resp[t].status = 403

----------------------------------------------------------------------------
\* The prescription lifecycle

\* Thread t handles a dispense request in this step.
Dispenses(t) ==
    /\ pc[t] = "dispatch"
    /\ pc'[t] # "dispatch"
    /\ req'[t].route = "dispense_prescription"

Dispensed(id) == \E p \in prescriptions : p.id = id /\ p.dispensed

\* C16: a dispense request of a logged-in user for a prescription whose
\* dispensed flag is already true is answered 400 and changes nothing in the
\* store.
C16_DispenseTwiceRefused ==
    [][\A t \in Threads :
          (Dispenses(t) /\ ~Anonymous /\ Dispensed(req'[t].id))
             => /\ pc'[t] = "responded"
                /\ resp'[t].status = 400
                /\ UNCHANGED storeVars]_vars

\* A second dispense request for a dispensed prescription has been refused.
C16_Witness ==
    \E t \in Threads :
       /\ pc[t] = "responded"
       /\ req[t].route = "dispense_prescription"
       /\ Dispensed(req[t].id)
       /\ resp[t].status = 400

\* C17: of two parallel dispense requests for the same pending prescription
\* only one reports success: never do two workers both answer 200 for the
\* same prescription.
C17_OneDispenseSucceeds ==
    \A t \in Threads : \A u \in Threads \ {t} :
       ~(/\ pc[t] = "responded" /\ pc[u] = "responded"
         /\ req[t].route = "dispense_prescription"
         /\ req[u].route = "dispense_prescription"
         /\ req[t].id = req[u].id
         /\ resp[t].status = 200 /\ resp[u].status = 200)

\* C18: no step of any route turns a dispensed prescription back to pending
\* or removes it, and every prescription a step creates is pending.
C18_DispensedMonotonic ==
    [][/\ \A p \in prescriptions :
             p.dispensed => \E q \in prescriptions' : q.id = p.id /\ q.dispensed
       /\ \A q \in prescriptions' :
             q.id \notin Ids(prescriptions) => ~q.dispensed]_vars

\* A consultation whose prescription is dispensed has been updated, and a
\* consultation added later has a pending prescription.
C18_Witness ==
    /\ \E c \in consultations :
          /\ c.diagnosis = "Hypertension, stage 1"
          /\ \E p \in prescriptions : p.consultation_id = c.id /\ p.dispensed
    /\ \E c \in consultations :
          /\ c.diagnosis = "Influenza"
          /\ \E p \in prescriptions : p.consultation_id = c.id /\ ~p.dispensed

----------------------------------------------------------------------------
\* The inventory and the lookups by id

\* Thread t answers a logged-in request to route in this step.
AnswersRoute(t, route) == Answers(t) /\ ~Anonymous /\ req'[t].route = route

\* C19 as stated: the status get_inventory reports for a medicine is the one
\* computed from its stock_level and expiry_date on the day of the request:
\* Expired past the expiry date, else Low Stock at a stock of 10 or less,
\* else In Stock.
C19_StatusDerived ==
    [][\A t \in Threads :
          AnswersRoute(t, "get_inventory") =>
             \E today \in {20250720, 20260301, 20260901, 20270101, 20270201} :
                \A item \in resp'[t].body :
                   item.status = IF item.expiry_date < today THEN "Expired"
                                 ELSE IF item.stock_level <= 10 THEN "Low Stock"
                                 ELSE "In Stock"]_vars

\* C19, amended: get_inventory reports for every medicine the columns of its
\* row as stored, the status among them: one of In Stock, Low Stock and
\* Reorder as written when the row was seeded; and no route changes a
\* medicine row.
C19_StatusAsStored ==
    [][/\ \A t \in Threads :
             AnswersRoute(t, "get_inventory") =>
                /\ resp'[t].status = 200
                /\ resp'[t].body = medicines
                /\ \A item \in resp'[t].body :
                      item.status \in {"In Stock", "Low Stock", "Reorder"}
       /\ medicines' = medicines]_vars

\* The inventory has been reported with a stock of 45 as Low Stock and a
\* stock of 15 as Reorder.
C19_Witness ==
    \E t \in Threads :
       /\ pc[t] = "responded"
       /\ req[t].route = "get_inventory"
       /\ \E item \in resp[t].body :
             item.stock_level = 45 /\ item.status = "Low Stock"
       /\ \E item \in resp[t].body :
             item.stock_level = 15 /\ item.status = "Reorder"

\* C20: a logged-in request with an id that resolves to no row is answered
\* 404 by get_patient, update_patient, get_patient_consultations,
\* get_consultation, update_consultation and dispense_prescription.
C20_NotFound ==
    [][\A t \in Threads :
          /\ (/\ \/ AnswersRoute(t, "get_patient")
                 \/ AnswersRoute(t, "update_patient")
                 \/ AnswersRoute(t, "get_patient_consultations")
              /\ req'[t].id \notin Ids(patients))
                => resp'[t].status = 404
          /\ (/\ \/ AnswersRoute(t, "get_consultation")
                 \/ AnswersRoute(t, "update_consultation")
              /\ req'[t].id \notin Ids(consultations))
                => resp'[t].status = 404
          /\ (/\ AnswersRoute(t, "dispense_prescription")
              /\ req'[t].id \notin Ids(prescriptions))
                => resp'[t].status = 404]_vars

----------------------------------------------------------------------------
\* Integrity of the rows

\* C21: add_consultation persists no consultation whose patient_id matches
\* no Patient or whose doctor_id matches no User.
C21_ReferencesExist ==
    [][\A t \in Threads :
          AnswersRoute(t, "add_consultation") =>
             \A c \in consultations' \ consultations :
                c.patient_id \in Ids(patients) /\ c.doctor_id \in Ids(users)]_vars

QidsUnique == \A p \in patients : \A q \in patients : p.qid = q.qid => p = q

\* C22: no two Patient rows ever share a qid, through seeding, add_patient
\* and update_patient; a request to add_patient or update_patient that does
\* not answer with success, as one that would duplicate a qid does not,
\* leaves the set of patients as it was.
C22_QidUnique ==
    /\ []QidsUnique
    /\ [][\A t \in Threads :
            (/\ Answers(t)
             /\ req'[t].route \in {"add_patient", "update_patient"}
             /\ resp'[t].status \notin {200, 201})
               => patients' = patients]_vars

\* add_patient has refused a qid that a patient already has.
C22_Witness ==
    \E t \in Threads :
       /\ pc[t] = "responded"
       /\ req[t].route = "add_patient"
       /\ resp[t].status = 500
       /\ resp[t].body = {[exception |-> "IntegrityError"]}
       /\ Cardinality(patients) > 1

\* C24: a login with the email of a seeded user in the store and the
\* password 'password' answers 200 and sets the session to that user, in the
\* process that seeded and in every later process on the same store; a login
\* with another password answers 401.
C24_SeededLogin ==
    [][\A t \in Threads : \A e \in SeedEmails : \A pw \in Passwords :
          (api_login(t, e, pw) /\ \E u \in users : u.email = e)
             => IF pw = "password"
                THEN /\ resp'[t].status = 200
                     /\ \E u \in users :
                           /\ u.email = e
                           /\ session' = [user_id |-> u.id, user_name |-> u.name,
                                          user_role |-> u.role]
                ELSE resp'[t].status = 401]_vars

----------------------------------------------------------------------------
\* The gate in front of the handlers

\* C25: a thread is in a route handler only while _is_initialized is true,
\* and it enters the handler only from the end of its own call of
\* initialize_database(), holding the lock until then.
C25_InitBeforeDispatch ==
    /\ [](\A t \in Threads : pc[t] \in HandlerPcs => _is_initialized)
    /\ [][\A t \in Threads :
            (pc'[t] = "dispatch" /\ pc[t] # "dispatch")
               => pc[t] = "release" /\ _init_lock = t /\ _is_initialized]_vars

\* A request is in its handler in a process that has run the create_all and
\* seed sequence, while another request is still inside the gate.
C25_Witness ==
    /\ initRuns = 1
    /\ \E t \in Threads :
          /\ pc[t] = "dispatch"
          /\ \E u \in Threads \ {t} : pc[u] \in GatePcs

\* C26: a thread outside the with block never holds _init_lock, also after
\* db.create_all or seeding has raised, and under fair scheduling every
\* thread that waits for the lock gets through initialize_database(): it is
\* dispatched or its request is answered.
C26_LockReleased ==
    /\ [](\A t \in Threads : _init_lock = t => pc[t] \in GatePcs)
    /\ \A t \in Threads :
          (pc[t] = "acquire") ~> (pc[t] \in {"dispatch", "responded"})

\* db.create_all has raised in one thread and the lock is free for the
\* thread that waits for it.
C26_Witness ==
    /\ _init_lock = NoThread
    /\ \E t \in Threads :
          /\ pc[t] = "responded"
          /\ resp[t].status = 500
          /\ req[t].route = ""
          /\ \E u \in Threads \ {t} : pc[u] = "acquire"

----------------------------------------------------------------------------
\* Consultations and prescriptions

\* C27: a request to add_consultation by a logged-in user persists the
\* consultation and all its prescriptions together and answers 201, or, when
\* the payload has an invalid date or a prescription entry without
\* medication or dosage, it persists nothing and fails.
C27_AllOrNothing ==
    [][\A t \in Threads : \A data \in ConsultationPayloads :
          (add_consultation(t, data) /\ ~Anonymous)
             => IF \/ BadConsultation(data)
                   \/ \E i \in 1..Len(data.prescriptions) :
                         BadPrescription(data.prescriptions[i])
                THEN /\ resp'[t].status = 500
                     /\ consultations' = consultations
                     /\ prescriptions' = prescriptions
                ELSE /\ resp'[t].status = 201
                     /\ \E c \in consultations' \ consultations :
                           /\ consultations' = consultations \cup {c}
                           /\ prescriptions \subseteq prescriptions'
                           /\ Cardinality(prescriptions' \ prescriptions)
                                 = Len(data.prescriptions)
                           /\ \A p \in prescriptions' \ prescriptions :
                                 p.consultation_id = c.id]_vars

\* A request to add_consultation of a logged-in user has failed on its
\* payload, with the seeded consultations in the store.
C27_Witness ==
    \E t \in Threads :
       /\ pc[t] = "responded"
       /\ req[t].route = "add_consultation"
       /\ resp[t] = [status |-> 500, body |-> {[exception |-> "KeyError"]}]
       /\ ~Anonymous
       /\ Cardinality(consultations) >= 3

\* C28: get_pending_prescriptions answers a logged-in user with exactly the
\* prescriptions whose dispensed flag is false: every prescription from its
\* creation until its dispense, and none that has been dispensed.
C28_PendingListed ==
    [][\A t \in Threads :
          AnswersRoute(t, "get_pending_prescriptions")
             => /\ resp'[t].status = 200
                /\ {r.id : r \in resp'[t].body}
                      = {p.id : p \in {q \in prescriptions : ~q.dispensed}}]_vars

\* C29: the step that completes a dispense answers 200 and sets the dispensed
\* flag of the addressed prescription; every other column of it, every other
\* prescription and every medicine, user, patient and consultation row are
\* as before.
C29_DispenseFrame ==
    [][\A t \in Threads :
          (pc[t] = "dispense_commit" /\ pc'[t] = "responded")
             => /\ resp'[t].status = 200
                /\ prescriptions' =
                      {IF p.id = req[t].id THEN [p EXCEPT !.dispensed = TRUE] ELSE p
                         : p \in prescriptions}
                /\ medicines' = medicines
                /\ UNCHANGED <<users, patients, consultations>>]_vars

\* A prescription linked to a medicine has been dispensed, and the medicine
\* has its seeded stock.
C29_Witness ==
    \E t \in Threads :
       /\ pc[t] = "responded"
       /\ req[t].route = "dispense_prescription"
       /\ resp[t].status = 200
       /\ \E p \in prescriptions :
             /\ p.id = req[t].id
             /\ p.dispensed
             /\ \E m \in medicines :
                   m.id = p.medicine_id /\ m \in SeedMedicineRows(1)

----------------------------------------------------------------------------
\* The session

\* C30: a login ends in 200 with an authenticated session or in 401 with the
\* session as it was, the latter for an unknown email and for a wrong
\* password; a logout ends in 200 with user_id, user_name and user_role
\* removed, also when nobody is logged in; no other step changes the session,
\* and a request without a logged-in session to a route behind login_required
\* is denied and leaves the session as it is.
C30_SessionLifecycle ==
    [][/\ \A t \in Threads :
             /\ (Answers(t) /\ req'[t].route = "api_login")
                   => \/ resp'[t].status = 200 /\ session'.user_id # 0
                      \/ resp'[t].status = 401 /\ session' = session
             /\ \A e \in Emails : \A pw \in Passwords :
                   (/\ api_login(t, e, pw)
                    /\ ~\E u \in users : u.email = e /\ check_password(u, hashSeed, pw))
                      => resp'[t].status = 401 /\ session' = session
             /\ (Answers(t) /\ req'[t].route = "api_logout")
                   => resp'[t].status = 200 /\ session' = NoSession
             /\ (/\ Answers(t)
                 /\ Anonymous
                 /\ req'[t].route \in DataRoutes \ {"get_doctors"})
                   => DeniedUnauthenticated(t) /\ session' = session
       /\ session' # session
             => \E t \in Threads :
                   /\ Answers(t)
                   /\ \/ req'[t].route = "api_login" /\ resp'[t].status = 200
                      \/ req'[t].route = "api_logout"]_vars

\* A login with a wrong password or an unknown email has failed while a user
\* is logged in, and the session is still that user's.
C30_Witness ==
    /\ \E u \in users :
          session = [user_id |-> u.id, user_name |-> u.name, user_role |-> u.role]
    /\ \E t \in Threads :
          /\ pc[t] = "responded"
          /\ req[t].route = "api_login"
          /\ resp[t].status = 401

====
